---- MODULE Spec2Model ----
(***************************************************************************)
(* Model of the GameLobby ink! contract (src/lib.rs): the storage struct,  *)
(* the constructor and the two messages join and leave.  Each message is   *)
(* one atomic step; the caller is the host-supplied account.               *)
(***************************************************************************)
EXTENDS Integers, Sequences, FiniteSets, TLC

(* ---- bounds of the model ---- *)
NumAccounts == 3
MaxCap == 4
MaxFamily == 1

Accounts == 1..NumAccounts
Capacities == 0..MaxCap
FamilyIds == 0..MaxFamily

(* ---- enum LobbyState, enum Error (plus Ok for Result::Ok) ---- *)
LobbyState == {"Registering", "InPlay", "Finished"}
Error == {"LobbyFull", "LobbyNotOpen", "PlayerAlreadyJoined", "PlayerNotFound", "NotOwner"}
Results == Error \cup {"Ok"}

VARIABLES owner, family_id, max_players, players, state,
          lastOp, lastCaller, lastResult,
          fullFailed, leftAfterFull, retried, left,
          created, prevPlayers, joinOrder

lobby == <<owner, family_id, max_players, players, state>>
\* the three fields set by the constructor's arguments and caller
Config == <<owner, family_id, max_players>>
vars == <<owner, family_id, max_players, players, state,
          lastOp, lastCaller, lastResult, fullFailed, leftAfterFull, retried, left,
          created, prevPlayers, joinOrder>>

(* ---- Vec helpers ---- *)
Range(v) == {v[i] : i \in 1..Len(v)}

\* Vec::contains
Contains(v, c) == \E i \in 1..Len(v) : v[i] = c

\* iter().position(): index of the first match, 0 for None (indices are 1-based here)
Position(v, c) ==
    IF Contains(v, c) THEN CHOOSE i \in 1..Len(v) : v[i] = c /\ \A j \in 1..(i - 1) : v[j] # c
    ELSE 0

\* mutant: the new element goes to the front
Push_Front(v, c) == <<c>> \o v

\* Vec::push
Push(v, c) == Append(v, c)

\* mutant: order-preserving Vec::remove
SwapRemove_Shift(v, i) ==
    [j \in 1..(Len(v) - 1) |-> IF j < i THEN v[j] ELSE v[j + 1]]

\* Vec::swap_remove: the last element takes the removed slot, then the vector shrinks by one
SwapRemove(v, i) ==
    [j \in 1..(Len(v) - 1) |-> IF j = i THEN v[Len(v)] ELSE v[j]]

(* ---- join ---- *)

\* mutant: the capacity check is missing
JoinResult_NoFullCheck(caller) ==
    IF Contains(players, caller) THEN "PlayerAlreadyJoined"
    ELSE IF state # "Registering" THEN "LobbyNotOpen"
    ELSE "Ok"

\* mutant: the duplicate check is missing
JoinResult_NoDupCheck(caller) ==
    IF Len(players) >= max_players THEN "LobbyFull"
    ELSE IF state # "Registering" THEN "LobbyNotOpen"
    ELSE "Ok"

\* mutant: the capacity check comes before the duplicate check
JoinResult_FullFirst(caller) ==
    IF Len(players) >= max_players THEN "LobbyFull"
    ELSE IF Contains(players, caller) THEN "PlayerAlreadyJoined"
    ELSE IF state # "Registering" THEN "LobbyNotOpen"
    ELSE "Ok"

\* mutant: the phase check comes before the capacity check
JoinResult_PhaseBeforeFull(caller) ==
    IF Contains(players, caller) THEN "PlayerAlreadyJoined"
    ELSE IF state # "Registering" THEN "LobbyNotOpen"
    ELSE IF Len(players) >= max_players THEN "LobbyFull"
    ELSE "Ok"

\* mutant: the capacity check uses > instead of >=
JoinResult_StrictFull(caller) ==
    IF Contains(players, caller) THEN "PlayerAlreadyJoined"
    ELSE IF Len(players) > max_players THEN "LobbyFull"
    ELSE IF state # "Registering" THEN "LobbyNotOpen"
    ELSE "Ok"

\* the three checks of join, in order; "Ok" when all pass
JoinResult(caller) ==
    IF Contains(players, caller) THEN "PlayerAlreadyJoined"
    ELSE IF Len(players) >= max_players THEN "LobbyFull"
    ELSE IF state # "Registering" THEN "LobbyNotOpen"
    ELSE "Ok"

\* mutant: the caller is pushed before the checks decide
JoinPlayers_PushAlways(caller) == Push(players, caller)

\* roster after join
JoinPlayers(caller) ==
    IF JoinResult(caller) = "Ok" THEN Push(players, caller) ELSE players

\* mutant: the transition fires one join early
JoinState_OffByOne(caller) ==
    IF JoinResult(caller) = "Ok" /\ Len(JoinPlayers(caller)) + 1 = max_players
    THEN "InPlay" ELSE state

\* mutant: the transition is missing
JoinState_NoTransition(caller) == state

\* mutant: the wrong variant is assigned
JoinState_Finished(caller) ==
    IF JoinResult(caller) = "Ok" /\ Len(JoinPlayers(caller)) = max_players
    THEN "Finished" ELSE state

\* phase after join: auto-transition when the push filled the roster
JoinState(caller) ==
    IF JoinResult(caller) = "Ok" /\ Len(JoinPlayers(caller)) = max_players
    THEN "InPlay" ELSE state

\* mutant: join records its caller as the owner
JoinConfig_OwnerIsCaller(caller) == <<caller, family_id, max_players>>

\* owner, family_id, max_players after join: join assigns none of them
JoinConfig(caller) == Config

(* ---- leave ---- *)

\* mutant: the phase check is missing
LeaveResult_NoPhaseCheck(caller) ==
    IF Position(players, caller) # 0 THEN "Ok" ELSE "PlayerNotFound"

\* mutant: membership is tested before the phase
LeaveResult_MemberFirst(caller) ==
    IF Position(players, caller) = 0 THEN "PlayerNotFound"
    ELSE IF state # "Registering" THEN "LobbyNotOpen"
    ELSE "Ok"

\* the checks of leave, in order
LeaveResult(caller) ==
    IF state # "Registering" THEN "LobbyNotOpen"
    ELSE IF Position(players, caller) # 0 THEN "Ok"
    ELSE "PlayerNotFound"

\* roster after leave
LeavePlayers(caller) ==
    IF LeaveResult(caller) = "Ok"
    THEN SwapRemove(players, Position(players, caller)) ELSE players

\* mutant: the lobby closes when its last member leaves
LeaveState_FinishWhenEmpty(caller) ==
    IF LeaveResult(caller) = "Ok" /\ Len(LeavePlayers(caller)) = 0
    THEN "Finished" ELSE state

\* phase after leave: leave never assigns state
LeaveState(caller) == state

\* owner, family_id, max_players after leave: leave assigns none of them
LeaveConfig(caller) == Config

(* ---- queries ---- *)
GetPlayers == players
GetState == state

(* ---- constructor ---- *)

\* mutant: the creator is put on the roster
New_CreatorJoins(caller, fid, maxp) ==
    [owner |-> caller, family_id |-> fid, max_players |-> maxp,
     players |-> <<caller>>, state |-> "Registering"]

\* GameLobby::new
New(caller, fid, maxp) ==
    [owner |-> caller, family_id |-> fid, max_players |-> maxp,
     players |-> <<>>, state |-> "Registering"]

(* ---- the state machine ---- *)
\* Besides the five storage fields the state records the last call (message,
\* caller, returned Result) and which callers were refused with LobbyFull
\* (fullFailed), saw a leave succeed after that (leftAfterFull), joined
\* successfully after that leave (retried), or have left at least once (left);
\* the arguments and caller of the constructor (created), the roster before
\* the last call (prevPlayers), and the callers whose joins succeeded, in
\* order, for as long as no leave has succeeded (joinOrder).

\* GameLobby::new, called by any account with any family id and capacity
Init ==
    \E caller \in Accounts, fid \in FamilyIds, maxp \in Capacities :
    /\ created = [caller |-> caller, family_id |-> fid, max_players |-> maxp]
    /\ owner = New(caller, fid, maxp).owner
    /\ family_id = New(caller, fid, maxp).family_id
    /\ max_players = New(caller, fid, maxp).max_players
    /\ players = New(caller, fid, maxp).players
    /\ state = New(caller, fid, maxp).state
    /\ prevPlayers = <<>>
    /\ joinOrder = <<>>
    /\ lastOp = "new"
    /\ lastCaller = caller
    /\ lastResult = "Ok"
    /\ fullFailed = {}
    /\ leftAfterFull = {}
    /\ retried = {}
    /\ left = {}

join(caller) ==
    /\ players' = JoinPlayers(caller)
    /\ state' = JoinState(caller)
    /\ owner' = JoinConfig(caller)[1]
    /\ family_id' = JoinConfig(caller)[2]
    /\ max_players' = JoinConfig(caller)[3]
    /\ prevPlayers' = players
    /\ joinOrder' = IF JoinResult(caller) = "Ok" /\ left = {}
                    THEN Append(joinOrder, caller) ELSE joinOrder
    /\ UNCHANGED created
    /\ lastOp' = "join"
    /\ lastCaller' = caller
    /\ lastResult' = JoinResult(caller)
    /\ fullFailed' = IF JoinResult(caller) = "LobbyFull"
                     THEN fullFailed \cup {caller} ELSE fullFailed
    /\ retried' = IF JoinResult(caller) = "Ok" /\ caller \in leftAfterFull
                  THEN retried \cup {caller} ELSE retried
    /\ UNCHANGED <<leftAfterFull, left>>

leave(caller) ==
    /\ players' = LeavePlayers(caller)
    /\ state' = LeaveState(caller)
    /\ owner' = LeaveConfig(caller)[1]
    /\ family_id' = LeaveConfig(caller)[2]
    /\ max_players' = LeaveConfig(caller)[3]
    /\ prevPlayers' = players
    /\ joinOrder' = IF LeaveResult(caller) = "Ok" THEN <<>> ELSE joinOrder
    /\ UNCHANGED created
    /\ lastOp' = "leave"
    /\ lastCaller' = caller
    /\ lastResult' = LeaveResult(caller)
    /\ leftAfterFull' = IF LeaveResult(caller) = "Ok"
                        THEN leftAfterFull \cup fullFailed ELSE leftAfterFull
    /\ left' = IF LeaveResult(caller) = "Ok" THEN left \cup {caller} ELSE left
    /\ UNCHANGED <<fullFailed, retried>>

Next == \E caller \in Accounts : join(caller) \/ leave(caller)

Spec == Init /\ [][Next]_vars

\* no leave is ever called, and a join that changes the state is not
\* postponed forever
NextJoin == \E caller \in Accounts : join(caller)

LiveSpec == Init /\ [][NextJoin]_vars /\ \A caller \in Accounts : WF_vars(join(caller))

TypeOK ==
    /\ owner \in Accounts
    /\ family_id \in FamilyIds
    /\ max_players \in Capacities
    /\ players \in Seq(Accounts)
    /\ state \in LobbyState
    /\ lastOp \in {"new", "join", "leave"}
    /\ lastCaller \in Accounts
    /\ lastResult \in Results
    /\ fullFailed \subseteq Accounts
    /\ leftAfterFull \subseteq Accounts
    /\ retried \subseteq Accounts
    /\ left \subseteq Accounts
    /\ created \in [caller : Accounts, family_id : FamilyIds, max_players : Capacities]
    /\ prevPlayers \in Seq(Accounts)
    /\ joinOrder \in Seq(Accounts)

(* ---- steps, as seen from the pair of states ---- *)
JoinStep == lastOp' = "join"
LeaveStep == lastOp' = "leave"
JoinOk == JoinStep /\ lastResult' = "Ok"
Failed == lastResult' # "Ok"

\* C1: the roster length never exceeds max_players.
C1_Capacity == Len(players) <= max_players

\* a join was attempted on a full, non-empty roster and rejected
C1_Witness ==
    /\ max_players >= 1
    /\ Len(players) = max_players
    /\ lastOp = "join" /\ lastResult = "LobbyFull"

\* C2: every identifier appears at most once in the roster.
C2_NoDuplicates ==
    \A i, j \in 1..Len(players) : players[i] = players[j] => i = j

\* a caller who had left joined again next to another member
C2_Witness ==
    /\ Len(players) >= 2
    /\ lastOp = "join" /\ lastResult = "Ok"
    /\ lastCaller \in left

\* C3: the phase changes exactly in the successful join that brings the roster
\* to max_players, the change is Registering -> InPlay, and a successful join
\* that leaves the roster below max_players leaves the phase Registering.
C3_AutoTransition ==
    [][ /\ (state' # state) <=> (JoinOk /\ Len(players') = max_players)
        /\ (state' # state) => (state = "Registering" /\ state' = "InPlay")
        /\ (JoinOk /\ Len(players') < max_players) => state' = "Registering"
      ]_vars

\* the filling join has just happened in a lobby of capacity >= 2
C3_Witness ==
    /\ max_players >= 2
    /\ lastOp = "join" /\ lastResult = "Ok"
    /\ Len(players) = max_players
    /\ state = "InPlay"

\* C4 (as claimed): for any capacity, the phase is InPlay exactly when the
\* roster length equals max_players.
C4_FullIffInPlay_Original ==
    (state = "InPlay") <=> (Len(players) = max_players)

\* C4 (amended): InPlay implies a full roster for any capacity, and for a
\* capacity of at least 1 a full roster implies InPlay.
C4_FullIffInPlay ==
    /\ state = "InPlay" => Len(players) = max_players
    /\ (max_players >= 1 /\ Len(players) = max_players) => state = "InPlay"

\* a lobby of capacity >= 1 that has filled
C4_Witness ==
    /\ max_players >= 1
    /\ Len(players) = max_players
    /\ state = "InPlay"
    /\ lastOp = "leave"

\* C5: a join or leave that returns an error leaves the whole lobby state
\* (roster contents and order, phase, owner, family_id, max_players) unchanged.
C5_FailureNoEffect ==
    [][ Failed => lobby' = lobby ]_vars

\* a failing call on a non-empty roster
C5_Witness ==
    /\ lastResult \in {"PlayerAlreadyJoined", "LobbyFull", "LobbyNotOpen", "PlayerNotFound"}
    /\ Len(players) >= 1

\* C6: in phase InPlay a leave by any caller, member or not, returns
\* LobbyNotOpen and leaves the roster unchanged.
C6_LeaveOnlyRegistering ==
    [][ (LeaveStep /\ state = "InPlay")
          => (lastResult' = "LobbyNotOpen" /\ players' = players) ]_vars

\* a member's leave was refused in InPlay
C6_Witness ==
    /\ state = "InPlay"
    /\ lastOp = "leave" /\ lastResult = "LobbyNotOpen"
    /\ lastCaller \in Range(players)

\* C7: a join by a caller who is in the roster returns PlayerAlreadyJoined,
\* also when the roster is full and the phase is InPlay.
C7_DuplicatePrecedence ==
    [][ (JoinStep /\ Contains(players, lastCaller'))
          => lastResult' = "PlayerAlreadyJoined" ]_vars

\* a member's join on a full InPlay lobby got PlayerAlreadyJoined
C7_Witness ==
    /\ state = "InPlay"
    /\ Len(players) = max_players
    /\ lastOp = "join" /\ lastResult = "PlayerAlreadyJoined"
    /\ lastCaller \in Range(players)

\* C8: with the roster length at least max_players, a join by a caller not in
\* the roster returns LobbyFull and the roster keeps the same members.
C8_JoinFull ==
    [][ (JoinStep /\ Len(players) >= max_players /\ ~Contains(players, lastCaller'))
          => (lastResult' = "LobbyFull" /\ players' = players) ]_vars

\* a non-member's join on a full InPlay lobby got LobbyFull
C8_Witness ==
    /\ state = "InPlay"
    /\ Len(players) >= 2
    /\ lastOp = "join" /\ lastResult = "LobbyFull"
    /\ lastCaller \notin Range(players)

\* C9 (as claimed): LobbyFull can clear through a leave: once a join has
\* failed with LobbyFull on a non-empty roster, a leave by some roster member
\* can succeed (after which the refused caller's retried join succeeds).
C9_FullClears_Original ==
    (fullFailed # {} /\ players # <<>>)
        => \E c \in Range(players) : LeaveResult(c) = "Ok"

\* C9 (amended): LobbyFull never clears through a leave: after a join has
\* failed with LobbyFull no leave ever succeeds, no refused caller's retried
\* join succeeds after a leave, and every member's leave is refused.
C9_FullNeverClears ==
    /\ leftAfterFull = {}
    /\ retried = {}
    /\ fullFailed # {} => \A c \in Accounts : LeaveResult(c) # "Ok"

\* a caller was refused with LobbyFull and a member then tried to leave
C9_Witness ==
    /\ fullFailed # {}
    /\ lastOp = "leave"
    /\ lastCaller \in Range(players)

\* C10: the only phase change is Registering -> InPlay, InPlay is kept in
\* every later state, and Finished is never reached.
C10_ForwardOnly ==
    /\ [](state # "Finished")
    /\ [][ /\ (state' # state) => (state = "Registering" /\ state' = "InPlay")
           /\ (state = "InPlay") => (state' = "InPlay") ]_vars

\* joins and leaves went on after the phase became InPlay
C10_Witness ==
    /\ state = "InPlay"
    /\ lastOp = "leave"
    /\ fullFailed # {}
    /\ lastCaller \notin Range(players)

LeaveOk == LeaveStep /\ lastResult' = "Ok"

\* C11: a successful join puts the caller at the end of the roster and keeps
\* the index of every existing member; while no leave has succeeded,
\* get_players returns the members in the order their joins succeeded.
C11_JoinOrder ==
    /\ [](left = {} => GetPlayers = joinOrder)
    /\ [][ JoinOk => /\ Len(players') = Len(players) + 1
                     /\ players'[Len(players')] = lastCaller'
                     /\ \A i \in 1..Len(players) : players'[i] = players[i] ]_vars

\* three joins have succeeded and nobody has left
C11_Witness ==
    /\ left = {}
    /\ Len(joinOrder) >= 3
    /\ lastOp = "join" /\ lastResult = "Ok"

\* C12: with max_players = 0 every join returns LobbyFull, none succeeds, the
\* roster stays empty and the phase stays Registering.
C12_ZeroCapacity ==
    max_players = 0 =>
        /\ players = <<>>
        /\ state = "Registering"
        /\ lastOp = "join" => lastResult = "LobbyFull"
        /\ \A c \in Accounts : JoinResult(c) = "LobbyFull"

\* a join was refused by a zero-capacity lobby
C12_Witness ==
    /\ max_players = 0
    /\ lastOp = "join" /\ lastResult = "LobbyFull"
    /\ Cardinality(fullFailed) >= 2

\* C13: a leave, successful or failing, never changes the phase; after a
\* successful leave the phase is Registering.
C13_LeaveKeepsPhase ==
    [][ /\ LeaveStep => state' = state
        /\ LeaveOk => state' = "Registering" ]_vars

\* the only member has just left
C13_Witness ==
    /\ lastOp = "leave" /\ lastResult = "Ok"
    /\ players = <<>>
    /\ state = "Registering"

\* C14: owner, family_id and max_players keep the values given at create; no
\* join or leave changes them.
C14_ImmutableConfig ==
    /\ [](Config = <<created.caller, created.family_id, created.max_players>>)
    /\ [][Config' = Config]_vars

\* accounts other than the owner have joined and left, and calls have failed
C14_Witness ==
    /\ left # {}
    /\ owner \notin left
    /\ fullFailed # {}
    /\ lastOp = "leave" /\ lastResult = "LobbyNotOpen" /\ lastCaller # owner

\* C15: create(family_id, max_players) by caller c yields owner = c, the given
\* family_id and max_players, an empty roster and phase Registering.
C15_InitialState ==
    lastOp = "new" =>
        /\ owner = created.caller
        /\ family_id = created.family_id
        /\ max_players = created.max_players
        /\ GetPlayers = <<>>
        /\ ~Contains(players, owner)
        /\ GetState = "Registering"

\* a freshly created lobby with a non-zero family id and capacity
C15_Witness ==
    /\ lastOp = "new"
    /\ family_id >= 1
    /\ max_players >= 2

\* C16: a successful leave by the caller at index i of a roster of length n
\* gives a roster of length n-1 with exactly the other members; if i < n the
\* previously last member sits at index i and all others keep their index; if
\* i = n all remaining members keep their index.
C16_SwapRemoval ==
    [][ LeaveOk =>
          LET n == Len(players)
              i == Position(players, lastCaller')
          IN /\ i \in 1..n
             /\ Len(players') = n - 1
             /\ Range(players') = Range(players) \ {lastCaller'}
             /\ i < n => players'[i] = players[n]
             /\ \A j \in 1..(n - 1) : j # i => players'[j] = players[j] ]_vars

\* the first of three members has just left
C16_Witness ==
    /\ lastOp = "leave" /\ lastResult = "Ok"
    /\ Len(prevPlayers) = 3
    /\ prevPlayers[1] = lastCaller
    /\ players = <<prevPlayers[3], prevPlayers[2]>>

\* C17: leave tests the phase before membership: in Registering a non-member
\* gets PlayerNotFound and a member gets Ok; PlayerNotFound is never returned
\* while the phase is not Registering.
C17_LeaveCheckOrder ==
    [][ LeaveStep =>
          /\ (state = "Registering" /\ ~Contains(players, lastCaller'))
                => lastResult' = "PlayerNotFound"
          /\ (state = "Registering" /\ Contains(players, lastCaller'))
                => lastResult' = "Ok"
          /\ lastResult' = "PlayerNotFound" => state = "Registering" ]_vars

\* a non-member's leave on a non-empty Registering lobby got PlayerNotFound
C17_Witness ==
    /\ lastOp = "leave" /\ lastResult = "PlayerNotFound"
    /\ state = "Registering"
    /\ Len(players) >= 1

\* C18: join never returns LobbyNotOpen: whenever the phase is not
\* Registering the roster is at capacity, so no caller reaches the phase check.
C18_JoinNeverNotOpen ==
    /\ ~(lastOp = "join" /\ lastResult = "LobbyNotOpen")
    /\ state # "Registering" => Len(players) >= max_players
    /\ \A c \in Accounts : JoinResult(c) # "LobbyNotOpen"

\* a join was refused on an InPlay lobby some of whose earlier members had left
C18_Witness ==
    /\ state # "Registering"
    /\ lastOp = "join" /\ lastResult = "LobbyFull"
    /\ left # {}

\* C19: right after a successful join by c, a leave by c succeeds and restores
\* the state before the join when the join did not fill the lobby; when the
\* join filled the lobby, the leave fails with LobbyNotOpen and c stays.
C19_JoinLeaveRoundTrip ==
    [][ (lastOp = "join" /\ lastResult = "Ok" /\ LeaveStep /\ lastCaller' = lastCaller) =>
          IF Len(players) < max_players
          THEN /\ lastResult' = "Ok"
               /\ players' = prevPlayers
               /\ state' = "Registering"
               /\ Config' = Config
          ELSE /\ lastResult' = "LobbyNotOpen"
               /\ Contains(players', lastCaller')
               /\ players' = players ]_vars

\* a caller joined a lobby of two as its third member and left again at once
C19_Witness ==
    /\ lastOp = "leave" /\ lastResult = "Ok"
    /\ Len(prevPlayers) = 3
    /\ prevPlayers[3] = lastCaller
    /\ players = SubSeq(prevPlayers, 1, 2)

\* C20: with max_players >= 1 and at least max_players callers, no leave and
\* weakly fair joins, the lobby eventually is InPlay with max_players members.
C20_Progress ==
    (max_players >= 1 /\ Cardinality(Accounts) >= max_players)
        ~> (state = "InPlay" /\ Len(players) = max_players)

\* a lobby of capacity >= 2 has filled by joins alone
C20_Witness ==
    /\ max_players >= 2
    /\ state = "InPlay"
    /\ Len(joinOrder) = max_players
    /\ lastOp = "join" /\ lastResult = "Ok"
====
